---- MODULE Spec2Model ----
(***************************************************************************)
(* State-machine model of the URL shortener in server.js: the Express      *)
(* request handlers (GET /, GET and POST /login, GET /logout, GET /home,   *)
(* POST /shortUrls, GET /short/:shortUrl, GET /api/health), the session    *)
(* and flash middleware around them, connectToDatabase, the local server   *)
(* process, and the MongoDB collection described by the ShortUrl schema.   *)
(* Every await of a handler is a point where other requests may run, so    *)
(* each handler is a chain of atomic steps separated at its awaits.        *)
(*                                                                         *)
(* sessions[s] is the session that the cookie of browser s names.  A       *)
(* response that saves a session also sets its cookie (the cookie has a    *)
(* maxAge), so the browser's session is the one saved last.                *)
(***************************************************************************)
EXTENDS Integers, Sequences, FiniteSets, TLC

\* ------------------------------------------------------------------ bounds
NSlots == 2         \* requests that can be in flight at the same time
MaxTime == 4        \* requests admitted in one run (the clock stops there)
MaxClicksTime == 5  \* the same, in the runs of SpecClicks
MaxFaults == 1      \* store operations that fail in one run
MaxProcessTime == 2 \* requests admitted in the runs of SpecProcess
MaxFollowTime == 2  \* requests a visitor starts in the runs of SpecFollow
MaxConnectTime == 3 \* requests admitted in the runs of SpecConnect
MaxAuthTime == 4    \* requests of the browser in the runs of SpecAuth
MaxFlashTime == 5   \* requests admitted in the runs of SpecFlash

Slots == 1..NSlots
Sessions == {"s1"}
Codes == {"c1", "c2"}           \* values the id generator can produce
MalformedCodes == {"!"}         \* a :shortUrl segment no generator produces
\* req.body.fullUrl: a missing field, a URL, a string that is no URL
Urls == {"", "http://u1", "not a url"}
\* req.body of POST /login: both accounts' credentials, a wrong password,
\* a missing field
LoginForms == { <<"a@x", "pwA">>, <<"b@x", "pwB">>, <<"a@x", "pwB">>,
                <<"", "pwA">> }
None == "none"                  \* undefined / null
EnvPorts == {None, "", "8080"}  \* process.env.PORT: unset, empty, a number
DefaultPort == 7000             \* the fallback of `process.env.PORT || ...`
DocumentedPort == 5000          \* the fallback DEPLOYMENT.md and README state
Signals == {"SIGTERM", "SIGINT"}
Uri == "mongodb://db"           \* a value of process.env.MONGODB_URI
EnvUris == {None, Uri}          \* process.env.MONGODB_URI: unset, set

\* ------------------------------------------------------- messages (server.js)
MsgLogin == "You must be logged in to access this page."
MsgHome == "An error occurred loading your URLs."
MsgCreate == "An error occurred creating the short URL."
MsgLoginFields == "Both email and password are required."
MsgLoginBad == "Invalid email or password."
MsgLoginErr == "An error occurred during login. Please try again."

VARIABLES
  users,        \* the User collection
  store,        \* the ShortUrl collection, in insertion order
  sessions,     \* the session store: session id -> session object
  isConnected,  \* the module-level flag of connectToDatabase
  now,          \* the clock (Date.now), one tick per arriving request
  faults,       \* store operations that have failed so far
  req,          \* the requests in flight, one per slot
  env,          \* process.env, as far as the server reads it
  proc,         \* the local server process: state, port, exit code
  redirects,    \* per document: 302 responses to its target sent so far
  location,     \* per session: the Location its browser is about to follow
  down          \* the database has become unreachable, for good

vars ==
  <<users, store, sessions, isConnected, now, faults, req, redirects, env, proc,
    location, down>>

\* ------------------------------------------------------------ pure helpers
\* bcrypt.hash / bcrypt.compare: the hash is not the password
Hash(p) == <<"bcrypt", p>>
\* A comparison that accepts every password.
CompareAny(p, h) == TRUE
Compare(p, h) == h = Hash(p)

NoDoc == [id |-> 0, full |-> "", short |-> "", clicks |-> 0,
          userId |-> None, createdAt |-> 0]
NoResp == [kind |-> None, to |-> None, status |-> 0, list |-> <<>>]
NoSess == [userId |-> None, error |-> None]

Idle == [pc |-> "idle", route |-> None, sid |-> None, session |-> NoSess,
         locals |-> None, dirty |-> FALSE, arg |-> None, arg2 |-> None,
         doc |-> NoDoc, caught |-> None, resp |-> NoResp]

Redirect(to) == [kind |-> "redirect", to |-> to, status |-> 302, list |-> <<>>]
\* res.render without res.status: the page goes out with status 200.
RenderNoStatus(view, status, list) ==
  [kind |-> "render", to |-> view, status |-> 200, list |-> list]

\* res.status(status).render(view, { shortUrls: list })
Render(view, status, list) ==
  [kind |-> "render", to |-> view, status |-> status, list |-> list]

\* res.status(status).json({ status, database, ... })
Json(status, database) ==
  [kind |-> "json", to |-> database, status |-> status, list |-> <<>>]

\* ---------------------------------------------------------------- startup
\* app.listen coerces the string of the environment to a port number.
PortNumber(p) == IF p = "8080" THEN 8080 ELSE 0

\* const PORT = process.env.PORT || 7000: unset and "" are both falsy.
ListenPort(p) == IF p \in {None, ""} THEN DefaultPort ELSE PortNumber(p)

\* ------------------------------------------------------------------- Init
\* Two accounts registered earlier (the database outlives the process), an
\* empty ShortUrl collection, no session logged in, no connection yet; the
\* local server listens on its port.
Start(p, u) ==
  /\ env = [PORT |-> p, MONGODB_URI |-> u]
  /\ proc = [state |-> "listening", port |-> ListenPort(p), exitCode |-> -1]
  /\ users = { [id |-> "uA", email |-> "a@x", password |-> Hash("pwA")],
               [id |-> "uB", email |-> "b@x", password |-> Hash("pwB")] }
  /\ store = <<>>
  /\ sessions = [s \in Sessions |-> NoSess]
  /\ isConnected = FALSE
  /\ now = 0
  /\ faults = 0
  /\ req = [r \in Slots |-> Idle]
  /\ redirects = <<>>
  /\ location = [s \in Sessions |-> None]
  /\ down = FALSE

\* The process started with the database configured.
InitWith(p) == Start(p, Uri)

\* The process started without PORT in its environment.
Init == InitWith(None)

\* The process started with or without MONGODB_URI in its environment.
InitUri == \E u \in EnvUris : Start(None, u)

\* The process started under any of the environments.
InitEnv == \E p \in EnvPorts : InitWith(p)

\* ------------------------------------------------- middleware (server.js)
\* Flash middleware: req.session.error is handed to the view and deleted.
Flash(q) ==
  [q EXCEPT !.locals = q.session.error,
            !.session.error = None,
            !.dirty = (q.session.error # None)]

\* A guard that lets every request through.
RequireAuthOpen(q) == [q EXCEPT !.pc = "connect"]

\* requireAuth: without a userId set the error and redirect to /login.
RequireAuth(q) ==
  IF q.session.userId = None
    THEN [q EXCEPT !.session.error = MsgLogin, !.dirty = TRUE,
                   !.resp = Redirect("/login"), !.pc = "respond"]
    ELSE [q EXCEPT !.pc = "connect"]

\* A catch-all that sends the visitor to the landing page.
NotFoundRouteHome(q) == [q EXCEPT !.resp = Redirect("/"), !.pc = "respond"]

\* The catch-all route: res.status(404).render("404")
NotFoundRoute(q) ==
  [q EXCEPT !.resp = Render("404", 404, <<>>), !.pc = "respond"]

\* The outcomes of one store operation: it succeeds, or the store is
\* unavailable (while the run's fault budget lasts).
Outcomes ==
  IF down THEN {FALSE} ELSE IF faults < MaxFaults THEN BOOLEAN ELSE {TRUE}

\* The count of failed operations after one more; a database that is down
\* for good fails every operation and the count stays where it is.
Failed == IF down THEN faults ELSE faults + 1

\* GET /: a logged-in visitor is sent to /home, anyone else gets the page.
Landing(q) ==
  [q EXCEPT !.resp = IF q.session.userId # None
                       THEN Redirect("/home")
                       ELSE Render("landing", 200, <<>>),
            !.pc = "respond"]

\* GET /login behind isNotAuthenticated: a logged-in visitor is sent to /.
LoginPage(q) ==
  [q EXCEPT !.resp = IF q.session.userId # None
                       THEN Redirect("/")
                       ELSE Render("login", 200, <<>>),
            !.pc = "respond"]

\* The server takes a request: express-session loads the session, the flash
\* middleware runs, then the route's own middleware.
Accept(r, s, route, a, b) ==
  /\ proc.state = "listening"
  /\ req[r].pc = "idle"
  /\ \A k \in Slots : k < r => req[k].pc # "idle"
  /\ LET q0 == [Idle EXCEPT !.route = route, !.sid = s,
                            !.session = sessions[s], !.arg = a, !.arg2 = b]
         q1 == Flash(q0)
     IN  req' = [req EXCEPT ![r] =
                   CASE route \in {"home", "create"} -> RequireAuth(q1)
                     [] route = "other" -> NotFoundRoute(q1)
                     [] route = "landing" -> Landing(q1)
                     [] route = "loginPage" -> LoginPage(q1)
                     [] route = "logout" -> [q1 EXCEPT !.pc = "destroy"]
                     [] OTHER -> [q1 EXCEPT !.pc = "connect"]]
  /\ UNCHANGED <<users, store, sessions, isConnected, faults, redirects,
               env, proc, down>>

\* A request arrives on its own (typed, clicked, submitted); the clock ticks.
Arrive(r, s, route, a, b, limit) ==
  /\ now < limit
  /\ now' = now + 1
  /\ Accept(r, s, route, a, b)
  /\ UNCHANGED location

PostLogin(r) ==
  \E s \in Sessions, f \in LoginForms :
     Arrive(r, s, "login", f[1], f[2], MaxTime)

GetHome(r) == \E s \in Sessions : Arrive(r, s, "home", None, None, MaxTime)

PostShortUrls(r) ==
  \E s \in Sessions, u \in Urls : Arrive(r, s, "create", u, None, MaxTime)

GetShort(r) ==
  \E s \in Sessions, c \in Codes \cup MalformedCodes :
     Arrive(r, s, "resolve", c, None, MaxTime)

\* GET /short/ : without a :shortUrl segment no route matches but the
\* catch-all.
GetShortEmpty(r) ==
  \E s \in Sessions : Arrive(r, s, "other", "", None, MaxTime)

\* -------------------------------------------------------- catch blocks
\* A catch block of the resolve route that still sends the visitor on to the
\* target when the save has thrown.
CatchRedirectAnyway(q, err) ==
  IF q.route = "resolve" /\ q.pc = "save"
    THEN [q EXCEPT !.caught = err, !.resp = Redirect(q.doc.full),
                   !.pc = "respond"]
    ELSE [q EXCEPT !.caught = err, !.resp = Render("404", 404, <<>>),
                   !.pc = "respond"]

\* Every catch block written as the one of GET /home.
CatchAsHome(q, err) ==
  [q EXCEPT !.caught = err, !.session.error = MsgHome,
            !.dirty = TRUE, !.resp = Redirect("/"), !.pc = "respond"]

\* What each handler's catch block does with a thrown error.
Catch(q, err) ==
  CASE q.route = "home" ->
         [q EXCEPT !.caught = err, !.session.error = MsgHome,
                   !.dirty = TRUE, !.resp = Redirect("/"), !.pc = "respond"]
    [] q.route = "create" ->
         [q EXCEPT !.caught = err, !.session.error = MsgCreate,
                   !.dirty = TRUE, !.resp = Redirect("/home"),
                   !.pc = "respond"]
    [] q.route = "resolve" ->
         [q EXCEPT !.caught = err, !.resp = Render("404", 404, <<>>),
                   !.pc = "respond"]
    [] q.route = "health" ->
         [q EXCEPT !.caught = err, !.resp = Json(500, "disconnected"),
                   !.pc = "respond"]
    [] OTHER ->
         [q EXCEPT !.caught = err, !.session.error = MsgLoginErr,
                   !.dirty = TRUE, !.resp = Redirect("/login"),
                   !.pc = "respond"]

\* Position of a handler after its await connectToDatabase().
AfterConnect(q) ==
  CASE q.route = "home" -> "find"
    [] q.route = "create" -> "build"
    [] q.route = "resolve" -> "findOne"
    [] q.route = "health" -> "health"
    [] OTHER -> "login"

\* connectToDatabase up to its await: it returns at once when isConnected,
\* throws when MONGODB_URI is unset, and calls mongoose.connect otherwise.
ConnectToDatabase(r) ==
  /\ req[r].pc = "connect"
  /\ req' = [req EXCEPT ![r] =
       IF isConnected THEN [req[r] EXCEPT !.pc = AfterConnect(req[r])]
       ELSE IF env.MONGODB_URI = None THEN Catch(req[r], "NoUri")
       ELSE [req[r] EXCEPT !.pc = "connecting"]]
  /\ UNCHANGED <<users, store, sessions, isConnected, now, faults, redirects,
               env, proc, location, down>>

\* A flag that is set before the connect has resolved.
ConnectedAfterEager(ok) == TRUE

\* isConnected = true is the statement after the await: it runs only when
\* mongoose.connect has resolved.
ConnectedAfter(ok) == IF ok THEN TRUE ELSE isConnected

\* connectToDatabase from its await on: mongoose.connect resolves (the flag
\* is set) or rejects (the error is logged and thrown again).
MongooseConnect(r) ==
  /\ req[r].pc = "connecting"
  /\ \E ok \in Outcomes :
       /\ isConnected' = ConnectedAfter(ok)
       /\ faults' = IF ok THEN faults ELSE Failed
       /\ req' = [req EXCEPT ![r] =
            IF ok THEN [req[r] EXCEPT !.pc = AfterConnect(req[r])]
                  ELSE Catch(req[r], "StoreUnavailable")]
  /\ UNCHANGED <<users, store, sessions, now, redirects,
               env, proc, location, down>>

\* ---------------------------------------------- GET /api/health (168-184)
Health(r) ==
  /\ req[r].pc = "health"
  /\ req' = [req EXCEPT ![r].resp = Json(200, "connected"),
                        ![r].pc = "respond"]
  /\ UNCHANGED <<users, store, sessions, isConnected, now, faults, redirects,
               env, proc, location, down>>

\* ------------------------------------------------ POST /login (245-266)
FindUser(email) == {u \in users : u.email = email}

Login(r) ==
  /\ req[r].pc = "login"
  /\ LET q == req[r]
         found == FindUser(q.arg)
     IN  \E ok \in Outcomes :
           /\ faults' = IF q.arg # "" /\ q.arg2 # "" /\ ~ok
                          THEN Failed ELSE faults
           /\ req' = [req EXCEPT ![r] =
             IF q.arg = "" \/ q.arg2 = ""
               THEN [q EXCEPT !.session.error = MsgLoginFields,
                              !.dirty = TRUE, !.resp = Redirect("/login"),
                              !.pc = "respond"]
             ELSE IF ~ok THEN Catch(q, "StoreUnavailable")
             ELSE IF found = {} \/ \A u \in found : ~Compare(q.arg2, u.password)
               THEN [q EXCEPT !.session.error = MsgLoginBad,
                              !.dirty = TRUE, !.resp = Redirect("/login"),
                              !.pc = "respond"]
             ELSE [q EXCEPT !.session.userId = (CHOOSE u \in found : TRUE).id,
                            !.dirty = TRUE, !.resp = Redirect("/home"),
                            !.pc = "respond"]]
  /\ UNCHANGED <<users, store, sessions, isConnected, now, redirects,
               env, proc, location, down>>

\* ------------------------------------------------ GET /logout (269-273)
\* req.session.destroy(callback): the session leaves the store and the
\* request; the callback redirects to /.  Nothing is left to write back.
Logout(r) ==
  /\ req[r].pc = "destroy"
  /\ sessions' = [sessions EXCEPT ![req[r].sid] = NoSess]
  /\ req' = [req EXCEPT ![r].session = NoSess, ![r].dirty = FALSE,
                        ![r].resp = Redirect("/"), ![r].pc = "respond"]
  /\ UNCHANGED <<users, store, isConnected, now, faults, redirects,
               env, proc, location, down>>

\* ------------------------------------------------- GET /home (276-286)
\* Find with a filter on a path no document has: nothing matches.
FindWrongPath(coll, userId) == <<>>

\* Find without its filter: every document of the collection.
FindUnfiltered(coll, userId) == coll

\* ShortUrl.find({ userId })
Find(coll, userId) == SelectSeq(coll, LAMBDA d : d.userId = userId)

Home(r) ==
  /\ req[r].pc = "find"
  /\ \E ok \in Outcomes :
       /\ faults' = IF ok THEN faults ELSE Failed
       /\ req' = [req EXCEPT ![r] =
         IF ok
           THEN [req[r] EXCEPT
                   !.resp = Render("index", 200,
                                   Find(store, req[r].session.userId)),
                   !.pc = "respond"]
           ELSE Catch(req[r], "StoreUnavailable")]
  /\ UNCHANGED <<users, store, sessions, isConnected, now, redirects,
               env, proc, location, down>>

\* --------------------------------------------- POST /shortUrls (289-302)
\* The values the default of `short` can produce.  The generator draws
\* them library-side and does not look at the collection.
GenerateShort == Codes

\* NewDoc with the generated code stored as the target as well.
NewDocCodeAsTarget(full, userId, short, t) ==
  [id |-> 0, full |-> short, short |-> short, clicks |-> 0,
   userId |-> userId, createdAt |-> t]

\* new ShortUrl({ full, userId }) with the schema's defaults applied.
NewDoc(full, userId, short, t) ==
  [id |-> 0, full |-> full, short |-> short, clicks |-> 0,
   userId |-> userId, createdAt |-> t]

\* ShortUrl.create, synchronous part: the document is constructed.
Build(r) ==
  /\ req[r].pc = "build"
  /\ \E c \in GenerateShort :
       req' = [req EXCEPT
                 ![r].doc = NewDoc(req[r].arg, req[r].session.userId, c, now),
                 ![r].pc = "insert"]
  /\ UNCHANGED <<users, store, sessions, isConnected, now, faults, redirects,
               env, proc, location, down>>

\* Schema validation: every `required` path is present and non-empty.
Valid(d) == d.full # "" /\ d.short # "" /\ d.userId # None

\* The collection without the unique index: no insert is rejected.
DuplicateKeyNoIndex(coll, d) == FALSE

\* The unique index on `short`.
DuplicateKey(coll, d) == \E i \in DOMAIN coll : coll[i].short = d.short

\* ShortUrl.create, asynchronous part: validate, then insertOne.
Insert(r) ==
  /\ req[r].pc = "insert"
  /\ LET q == req[r]
     IN  \E ok \in Outcomes :
           IF ~Valid(q.doc)
             THEN /\ req' = [req EXCEPT ![r] = Catch(q, "ValidationError")]
                  /\ UNCHANGED <<store, redirects, faults>>
           ELSE IF ~ok
             THEN /\ req' = [req EXCEPT ![r] = Catch(q, "StoreUnavailable")]
                  /\ faults' = Failed
                  /\ UNCHANGED <<store, redirects>>
           ELSE IF DuplicateKey(store, q.doc)
             THEN /\ req' = [req EXCEPT ![r] = Catch(q, "DuplicateCode")]
                  /\ UNCHANGED <<store, redirects, faults>>
           ELSE LET d == [q.doc EXCEPT !.id = Len(store) + 1]
                IN  /\ faults' = faults
                    /\ store' = Append(store, d)
                    /\ redirects' = Append(redirects, 0)
                    /\ req' = [req EXCEPT ![r].doc = d,
                                          ![r].resp = Redirect("/home"),
                                          ![r].pc = "respond"]
  /\ UNCHANGED <<users, sessions, isConnected, now,
               env, proc, location, down>>

\* ------------------------------------------ GET /short/:shortUrl (305-317)
\* findOne with a filter that matches every document.
FindByCodeAny(coll, code) == IF coll = <<>> THEN NoDoc ELSE coll[1]

\* ShortUrl.findOne({ short }): the first match, or null.
FindByCode(coll, code) ==
  LET hits == {i \in DOMAIN coll : coll[i].short = code}
  IN  IF hits = {} THEN NoDoc
      ELSE coll[CHOOSE i \in hits : \A j \in hits : i <= j]

\* findOne resolves; the handler then increments its copy: shortUrl.clicks++
FindOne(r) ==
  /\ req[r].pc = "findOne"
  /\ LET q == req[r]
         d == FindByCode(store, q.arg)
     IN  \E ok \in Outcomes :
           /\ faults' = IF ok THEN faults ELSE Failed
           /\ req' = [req EXCEPT ![r] =
             IF ~ok THEN Catch(q, "StoreUnavailable")
             ELSE IF d = NoDoc
               THEN [q EXCEPT !.resp = Render("404", 404, <<>>),
                              !.pc = "respond"]
             ELSE [q EXCEPT !.doc = [d EXCEPT !.clicks = d.clicks + 1],
                            !.pc = "save"]]
  /\ UNCHANGED <<users, store, sessions, isConnected, now, redirects,
               env, proc, location, down>>

\* A save that writes the creation stamp anew.
SaveClicksRestamp(stored, copy) ==
  [stored EXCEPT !.clicks = copy.clicks, !.createdAt = 0]

\* A save that counts the visit a second time.
SaveClicksTwice(stored, copy) == [stored EXCEPT !.clicks = copy.clicks + 1]

\* shortUrl.save(): only the modified path is written, as
\* updateOne({ _id }, { $set: { clicks } }) with the copy's value.
SaveClicks(stored, copy) == [stored EXCEPT !.clicks = copy.clicks]

Save(r) ==
  /\ req[r].pc = "save"
  /\ LET q == req[r]
     IN  \E ok \in Outcomes :
           IF ok
             THEN /\ faults' = faults
                  /\ store' = [store EXCEPT
                                 ![q.doc.id] = SaveClicks(store[q.doc.id], q.doc)]
                  /\ req' = [req EXCEPT ![r].resp = Redirect(q.doc.full),
                                        ![r].pc = "respond"]
             ELSE /\ faults' = Failed
                  /\ store' = store
                  /\ req' = [req EXCEPT ![r] = Catch(q, "StoreUnavailable")]
  /\ UNCHANGED <<users, sessions, isConnected, now, redirects,
               env, proc, location, down>>

\* ------------------------------------------------------------ response
\* A 302 to the target of a stored document
IsLinkRedirect(q) ==
  q.route = "resolve" /\ q.pc = "respond" /\ q.resp.kind = "redirect"

\* The response is sent; express-session writes the session back when the
\* request changed it.
SendResponse(r) ==
  /\ req[r].pc = "respond"
  /\ LET q == req[r]
     IN  /\ sessions' = IF q.dirty THEN [sessions EXCEPT ![q.sid] = q.session]
                        ELSE sessions
         /\ redirects' = IF IsLinkRedirect(q)
                           THEN [redirects EXCEPT ![q.doc.id] = @ + 1]
                           ELSE redirects
  /\ req' = [req EXCEPT ![r] = Idle]
  /\ UNCHANGED <<users, store, isConnected, now, faults,
               env, proc, down>>

\* The response reaches a client that does not follow redirects.
Respond(r) == SendResponse(r) /\ UNCHANGED location

\* ------------------------------------------------------------------ Next
Next ==
  \E r \in Slots :
    \/ PostLogin(r)
    \/ GetHome(r)
    \/ PostShortUrls(r)
    \/ GetShort(r)
    \/ GetShortEmpty(r)
    \/ ConnectToDatabase(r)
    \/ MongooseConnect(r)
    \/ Login(r)
    \/ Home(r)
    \/ Build(r)
    \/ Insert(r)
    \/ FindOne(r)
    \/ Save(r)
    \/ Respond(r)

Spec == Init /\ [][Next]_vars

\* ------------------------------------------------------------ SpecClicks
\* The same handlers under a narrower client: one account logs in, shortens
\* one URL and the short link is visited; one more request is admitted.
ClicksLogin(r) ==
  \E s \in Sessions : Arrive(r, s, "login", "a@x", "pwA", MaxClicksTime)

ClicksShortUrls(r) ==
  \E s \in Sessions : Arrive(r, s, "create", "http://u1", None, MaxClicksTime)

ClicksShort(r) ==
  \E s \in Sessions, c \in Codes :
     Arrive(r, s, "resolve", c, None, MaxClicksTime)

NextClicks ==
  \E r \in Slots :
    \/ ClicksLogin(r)
    \/ ClicksShortUrls(r)
    \/ ClicksShort(r)
    \/ ConnectToDatabase(r)
    \/ MongooseConnect(r)
    \/ Login(r)
    \/ Build(r)
    \/ Insert(r)
    \/ FindOne(r)
    \/ Save(r)
    \/ Respond(r)

SpecClicks == Init /\ [][NextClicks]_vars

\* ----------------------------------------------------------- SpecProcess
\* The local server process from start to exit, under any PORT, with
\* visitors of short links as its clients.
ProcessShort(r) ==
  \E s \in Sessions, c \in Codes :
     Arrive(r, s, "resolve", c, None, MaxProcessTime)

\* process.on(sig): server.close(callback).  The server stops accepting
\* connections; the callback waits for the open ones.
Signal(sig) ==
  /\ proc.state \in {"listening", "closing"}
  /\ proc' = [proc EXCEPT !.state = "closing"]
  /\ UNCHANGED <<users, store, sessions, isConnected, now, faults, req,
                 redirects, env, location, down>>

\* A close whose callback does not wait for the open connections.
CloseCompletedAtOnce == TRUE

\* server.close calls back once every connection has ended.
CloseCompleted == \A r \in Slots : req[r].pc = "idle"

\* The callback of server.close: process.exit(0)
Exit ==
  /\ proc.state = "closing"
  /\ CloseCompleted
  /\ proc' = [proc EXCEPT !.state = "exited", !.exitCode = 0]
  /\ UNCHANGED <<users, store, sessions, isConnected, now, faults, req,
                 redirects, env, location, down>>

\* The steps the event loop runs without a client: the handlers in flight.
HandlerStep ==
  \E r \in Slots :
    ConnectToDatabase(r) \/ MongooseConnect(r) \/ FindOne(r) \/ Respond(r)

NextProcess ==
  \/ \E r \in Slots : ProcessShort(r)
  \/ \E r \in Slots : ConnectToDatabase(r)
  \/ \E r \in Slots : MongooseConnect(r)
  \/ \E r \in Slots : FindOne(r)
  \/ \E r \in Slots : Respond(r)
  \/ \E sig \in Signals : Signal(sig)
  \/ Exit

\* The event loop runs every callback that is ready.
SpecProcess ==
  /\ InitEnv
  /\ [][NextProcess]_vars
  /\ WF_vars(HandlerStep)
  /\ WF_vars(Exit)

\* ------------------------------------------------------------ SpecFollow
\* One account's browser: it logs in or asks for /home, and follows every
\* redirect the server answers with.  The database may go down for good.
FollowLogin(r) ==
  \E s \in Sessions : Arrive(r, s, "login", "a@x", "pwA", MaxFollowTime)

FollowHome(r) ==
  \E s \in Sessions : Arrive(r, s, "home", None, None, MaxFollowTime)

\* The route a GET of the path reaches.
RouteOf(path) ==
  CASE path = "/" -> "landing"
    [] path = "/home" -> "home"
    [] path = "/login" -> "loginPage"
    [] OTHER -> "other"

\* The browser requests the Location of the redirect it was given.
Follow(r) ==
  \E s \in Sessions :
    /\ location[s] # None
    /\ Accept(r, s, RouteOf(location[s]), None, None)
    /\ location' = [location EXCEPT ![s] = None]
    /\ now' = now

\* The response reaches the browser, which notes the Location of a redirect.
RespondFollowed(r) ==
  /\ SendResponse(r)
  /\ location' = [location EXCEPT ![req[r].sid] =
                    IF req[r].resp.kind = "redirect"
                      THEN req[r].resp.to ELSE None]

\* The database becomes unreachable and stays so.
Outage ==
  /\ ~down
  /\ down' = TRUE
  /\ UNCHANGED <<users, store, sessions, isConnected, now, faults, req,
                 redirects, env, proc, location>>

FollowStep ==
  \E r \in Slots :
    ConnectToDatabase(r) \/ MongooseConnect(r) \/ Login(r) \/ Home(r)
      \/ RespondFollowed(r) \/ Follow(r)

NextFollow ==
  \/ \E r \in Slots : FollowLogin(r)
  \/ \E r \in Slots : FollowHome(r)
  \/ \E r \in Slots : Follow(r)
  \/ \E r \in Slots : ConnectToDatabase(r)
  \/ \E r \in Slots : MongooseConnect(r)
  \/ \E r \in Slots : Login(r)
  \/ \E r \in Slots : Home(r)
  \/ \E r \in Slots : RespondFollowed(r)
  \/ Outage

\* The event loop runs every handler that is ready and the browser follows
\* every redirect.
SpecFollow ==
  /\ Init
  /\ [][NextFollow]_vars
  /\ WF_vars(FollowStep)

\* ----------------------------------------------------------- SpecConnect
\* The connection to the database: a process started with or without
\* MONGODB_URI, probed by the health check and used by visitors of links.
ConnectHealth(r) ==
  \E s \in Sessions : Arrive(r, s, "health", None, None, MaxConnectTime)

ConnectShort(r) ==
  \E s \in Sessions, c \in Codes :
     Arrive(r, s, "resolve", c, None, MaxConnectTime)

NextConnect ==
  \E r \in Slots :
    \/ ConnectHealth(r)
    \/ ConnectShort(r)
    \/ ConnectToDatabase(r)
    \/ MongooseConnect(r)
    \/ Health(r)
    \/ FindOne(r)
    \/ Respond(r)

SpecConnect == InitUri /\ [][NextConnect]_vars

\* ------------------------------------------------------------- SpecFlash
\* One error message and its readers: a visitor without a login asks for
\* /home once, then asks for the login and landing pages.
FlashHome(r) == \E s \in Sessions : Arrive(r, s, "home", None, None, 1)

FlashLoginPage(r) ==
  \E s \in Sessions : Arrive(r, s, "loginPage", None, None, MaxFlashTime)

FlashLanding(r) ==
  \E s \in Sessions : Arrive(r, s, "landing", None, None, MaxFlashTime)

NextFlash ==
  \E r \in Slots :
    \/ FlashHome(r)
    \/ FlashLoginPage(r)
    \/ FlashLanding(r)
    \/ Respond(r)

SpecFlash == Init /\ [][NextFlash]_vars

\* -------------------------------------------------------------- SpecAuth
\* One browser's visit: it logs in and waits for the answer, then asks for
\* /home, logs out and asks for /home again without waiting for answers.
AuthLogin(r) == \E s \in Sessions : Arrive(r, s, "login", "a@x", "pwA", 1)

LoginAnswered == \A k \in Slots : req[k].route # "login"

AuthHome(r) ==
  /\ now \in {1, 3} /\ LoginAnswered
  /\ \E s \in Sessions : Arrive(r, s, "home", None, None, MaxAuthTime)

AuthLogout(r) ==
  /\ now = 2 /\ LoginAnswered
  /\ \E s \in Sessions : Arrive(r, s, "logout", None, None, MaxAuthTime)

NextAuth ==
  \E r \in Slots :
    \/ AuthLogin(r)
    \/ AuthHome(r)
    \/ AuthLogout(r)
    \/ ConnectToDatabase(r)
    \/ MongooseConnect(r)
    \/ Login(r)
    \/ Home(r)
    \/ Logout(r)
    \/ Respond(r)

SpecAuth == Init /\ [][NextAuth]_vars

\* ================================================================ claims
\* Requests of one kind that hold their response, not yet sent.
AtRespond(route) ==
  {r \in Slots : req[r].route = route /\ req[r].pc = "respond"}

\* Resolve requests that have read document d and not yet responded.
ResolvingNow(d) ==
  {r \in Slots : req[r].route = "resolve" /\ req[r].pc \in {"save", "respond"}
                 /\ req[r].doc.id = d}

\* C1: once every Resolve of a code has completed, the Link's clickCount is
\* its value at creation (0) plus the number of redirects served for it:
\* no increment is lost and none is added.
C1_CounterCorrect ==
  \A d \in DOMAIN store :
    ResolvingNow(d) = {} => store[d].clicks = redirects[d]

\* C2: between one Resolve's read of a Link and that Resolve's write of its
\* clickCount, no other request reads or writes the same Link.
C2_AtomicResolve ==
  [][\A r \in Slots :
       (req[r].pc = "save" /\ req'[r].pc = "save") =>
         LET d == req[r].doc.id
         IN  /\ store'[d] = store[d]
             /\ \A k \in Slots \ {r} :
                  /\ ~(req[k].pc = "findOne" /\ req'[k].pc = "save"
                       /\ req'[k].doc.id = d)
                  /\ ~(req[k].pc = "find" /\ req'[k].resp.kind = "render"
                       /\ \E i \in DOMAIN req'[k].resp.list :
                            req'[k].resp.list[i].id = d)]_vars

\* C3: a Link's clickCount is a non-negative integer, 0 when the Link is
\* created, and no step lowers it.
C3_ClicksMonotone ==
  [][/\ \A d \in DOMAIN store' : store'[d].clicks >= 0
     /\ \A d \in DOMAIN store' \ DOMAIN store : store'[d].clicks = 0
     /\ \A d \in DOMAIN store :
          d \in DOMAIN store' /\ store'[d].clicks >= store[d].clicks]_vars

\* Create requests of authenticated users whose insert was attempted and met
\* neither a validation failure nor an unavailable store.
Attempted(r) ==
  /\ req[r].route = "create" /\ req[r].pc = "respond"
  /\ req[r].doc.short # ""
  /\ req[r].caught \notin {"ValidationError", "StoreUnavailable"}

\* C4: of N concurrent Create requests every one stores a Link, and the N
\* codes are pairwise distinct.
C4_AllCreatesStore ==
  /\ \A r \in Slots : Attempted(r) => req[r].doc.id \in DOMAIN store
  /\ \A r1, r2 \in Slots :
       (r1 # r2 /\ Attempted(r1) /\ Attempted(r2)) =>
          req[r1].doc.short # req[r2].doc.short

\* C5: no two Links of the store have the same code, and a Link keeps the
\* code it was stored with, so the code never passes to another Link.
CodesDistinct ==
  \A i, j \in DOMAIN store : i # j => store[i].short # store[j].short

C5_CodeUnique ==
  [][/\ CodesDistinct /\ CodesDistinct'
     /\ \A i \in DOMAIN store :
          i \in DOMAIN store' /\ store'[i].short = store[i].short]_vars

C5_Witness ==
  /\ Len(store) = 2
  /\ \E r \in AtRespond("create") : req[r].caught = "DuplicateCode"

\* C6: when two concurrent Inserts carry the same candidate code, one
\* succeeds and the other is retried with a fresh code, so both Create
\* requests end with a stored Link.
C6_BothInsertsStore ==
  \A r1, r2 \in Slots :
    (r1 # r2 /\ Attempted(r1)
       /\ req[r2].route = "create" /\ req[r2].pc \in {"insert", "respond"}
       /\ req[r2].doc.short = req[r1].doc.short
       /\ req[r1].doc.createdAt # req[r2].doc.createdAt) =>
      req[r1].doc.id \in DOMAIN store

\* C7: a Create request never ends with DuplicateCode as its failure: that
\* failure is retried, and what is surfaced after the last retry is
\* CodeSpaceExhausted.
C7_DuplicateNeverSurfaces ==
  \A r \in AtRespond("create") : req[r].caught # "DuplicateCode"

\* C8: the list GET /home renders for a session holds no Link of another
\* owner.
C8_OwnerIsolation ==
  \A r \in AtRespond("home") :
    \A i \in DOMAIN req[r].resp.list :
      req[r].resp.list[i].userId = req[r].session.userId

C8_Witness ==
  \E r \in AtRespond("home") :
    /\ req[r].resp.kind = "render"
    /\ \E d \in DOMAIN store : store[d].userId # req[r].session.userId

\* C9: after Create(url, owner) has stored Link L, looking L.code up gives a
\* Link with that url and that owner, whatever ran in between.
C9_RoundTrip ==
  \A r \in AtRespond("create") :
    req[r].doc.id # 0 =>
      LET l == FindByCode(store, req[r].doc.short)
      IN  /\ l # NoDoc
          /\ l.full = req[r].arg
          /\ l.userId = req[r].session.userId

C9_Witness ==
  \E r \in AtRespond("create") :
    /\ req[r].doc.id # 0
    /\ store[req[r].doc.id].clicks > 0

\* A Resolve's save that succeeds on a Link no redirect was served for yet,
\* while no other request is in flight.
FirstResolveAlone(r) ==
  /\ req[r].pc = "save" /\ req'[r].pc = "respond" /\ req'[r].caught = None
  /\ redirects[req[r].doc.id] = 0
  /\ \A k \in Slots \ {r} : req[k].pc = "idle"

\* C10: Create stores a new Link with clickCount 0, the given url and the
\* session's owner; the first Resolve of its code, alone, redirects to that
\* url and leaves the stored clickCount at 1.
C10_CreateThenResolve ==
  [][\A r \in Slots :
       /\ (req[r].pc = "insert" /\ req'[r].pc = "respond"
           /\ req'[r].caught = None) =>
            /\ Len(store') = Len(store) + 1
            /\ store'[Len(store')].clicks = 0
            /\ store'[Len(store')].full = req[r].arg
            /\ store'[Len(store')].userId = req[r].session.userId
       /\ FirstResolveAlone(r) =>
            /\ store'[req[r].doc.id].clicks = 1
            /\ req'[r].resp = Redirect(store[req[r].doc.id].full)]_vars

C10_Witness ==
  \E r \in AtRespond("resolve") :
    /\ req[r].resp.kind = "redirect"
    /\ redirects[req[r].doc.id] = 0
    /\ store[req[r].doc.id].clicks = 1
    /\ \A k \in Slots \ {r} : req[k].pc = "idle"

\* The not-found outcome: the 404 page with status 404.
NotFoundPage == [kind |-> "render", to |-> "404", status |-> 404, list |-> <<>>]

NoLinkHas(code) == \A i \in DOMAIN store : store[i].short # code

\* The request slot r works on in this step (it arrives, or it is in flight).
Stepping(r) == IF req[r].pc = "idle" THEN req'[r] ELSE req[r]

\* C11: a Resolve of a code that no stored Link has ends with the 404 page,
\* every time, and no step of it changes the store.
C11_NotFound ==
  [][\A r \in Slots :
       (req'[r] # req[r] /\ Stepping(r).route = "resolve"
          /\ NoLinkHas(Stepping(r).arg)) =>
         /\ store' = store
         /\ req'[r].pc # "save"
         /\ req'[r].pc = "respond" => req'[r].resp = NotFoundPage]_vars

C11_Witness ==
  /\ store # <<>>
  /\ now >= 3
  /\ \E r \in AtRespond("resolve") :
       /\ NoLinkHas(req[r].arg)
       /\ req[r].caught = None
       /\ req[r].resp = NotFoundPage

\* An error outcome as this application reports one: a 5xx status, or the
\* session's error message set for the next page.
ErrorOutcome(q) == q.resp.status >= 500 \/ q.session.error # None

\* C12: a request of Resolve, Create or ListForOwner that met an unavailable
\* store ends in an error outcome that is not the not-found outcome.
C12_StoreFailureSurfaced ==
  \A r \in Slots :
    (req[r].pc = "respond" /\ req[r].route \in {"resolve", "create", "home"}
       /\ req[r].caught = "StoreUnavailable") =>
      /\ req[r].resp # NotFoundPage
      /\ ErrorOutcome(req[r])

\* The strings of Urls that parse as a URL.
Parseable(u) == u \in {"http://u1"}

\* C13: a Create whose targetUrl is empty or does not parse as a URL adds
\* no Link to the store and ends as a failed request.
C13_InvalidUrlRejected ==
  [][\A r \in Slots :
       (req'[r] # req[r] /\ req[r].route = "create"
          /\ ~Parseable(req[r].arg)) =>
         /\ store' = store
         /\ req'[r].pc = "respond" => req'[r].caught # None]_vars

\* C14: a stored Link keeps its code, targetUrl, ownerId and createdAt in
\* every later state.
C14_LinkImmutable ==
  [][\A d \in DOMAIN store :
       /\ d \in DOMAIN store'
       /\ store'[d].short = store[d].short
       /\ store'[d].full = store[d].full
       /\ store'[d].userId = store[d].userId
       /\ store'[d].createdAt = store[d].createdAt]_vars

C14_Witness ==
  \E r \in AtRespond("home") :
    \E i \in DOMAIN req[r].resp.list :
      store[req[r].resp.list[i].id].clicks > 0

\* C15: the stored clickCount of a Link changes only in the save of a
\* Resolve request for that Link's own code.
C15_ClicksOnlyByResolve ==
  [][\A d \in DOMAIN store :
       (d \in DOMAIN store' /\ store'[d].clicks # store[d].clicks) =>
         \E r \in Slots :
           /\ req[r].route = "resolve" /\ req[r].pc = "save"
           /\ req'[r].pc = "respond"
           /\ req[r].arg = store[d].short]_vars

C15_Witness ==
  /\ Len(store) = 2
  /\ \E r \in AtRespond("resolve") :
       /\ req[r].resp.kind = "redirect"
       /\ \E d \in DOMAIN store :
            d # req[r].doc.id /\ store[d].clicks = 0

\* C16: the code a Create is given is non-empty, over the alphabet, and held
\* by no stored Link at the moment it is allocated; allocating writes
\* nothing to the store.
C16_AllocateChecksStore ==
  [][\A r \in Slots :
       (req[r].pc = "build" /\ req'[r].pc = "insert") =>
         /\ req'[r].doc.short \in Codes
         /\ NoLinkHas(req'[r].doc.short)
         /\ store' = store]_vars

\* C17: the list GET /home renders holds every Link of the session's owner
\* that is in the store when the listing is read, hence every one stored by
\* a Create that completed before the listing started.
C17_ListComplete ==
  [][\A r \in Slots :
       (req[r].pc = "find" /\ req'[r].pc = "respond"
          /\ req'[r].caught = None) =>
         \A d \in DOMAIN store :
           store[d].userId = req[r].session.userId =>
             \E i \in DOMAIN req'[r].resp.list :
               req'[r].resp.list[i] = store[d]]_vars

C17_Witness ==
  \E r \in AtRespond("home") : Len(req[r].resp.list) = 2

\* A request for /short/ with an empty or a malformed code.
BadCode(q) ==
  q.route = "other" \/ (q.route = "resolve" /\ q.arg \in MalformedCodes)

\* C18: a Resolve whose code is empty or malformed ends with the same 404
\* page as a Resolve of an absent well-formed code, and no step of it
\* changes the store.
C18_BadCodeNotFound ==
  [][\A r \in Slots :
       (req'[r] # req[r] /\ BadCode(Stepping(r))) =>
         /\ store' = store
         /\ req'[r].pc = "respond" => req'[r].resp = NotFoundPage]_vars

C18_Witness ==
  /\ store # <<>>
  /\ \E r \in AtRespond("other") : req[r].resp = NotFoundPage
  /\ \E r \in AtRespond("resolve") :
       req[r].arg \in MalformedCodes /\ req[r].resp = NotFoundPage

\* C19: once a signal has started the close, the process exits with code 0,
\* and it exits only from the closing state, after every connection ended.
C19_GracefulShutdown ==
  /\ [][(proc'.state = "exited" /\ proc.state # "exited") =>
          /\ proc.state = "closing"
          /\ \A r \in Slots : req[r].pc = "idle"
          /\ proc'.exitCode = 0]_vars
  /\ (proc.state = "closing") ~> (proc.state = "exited" /\ proc.exitCode = 0)

C19_Witness ==
  /\ proc.state = "exited" /\ proc.exitCode = 0
  /\ now > 0

\* C20: the server listens on process.env.PORT when that is set, and on
\* port 5000 otherwise.
C20_PortFallback ==
  proc.state = "listening" =>
    /\ env.PORT = "8080" => proc.port = 8080
    /\ env.PORT = None => proc.port = DocumentedPort

\* C21: a Resolve holds a redirect only from the step in which its own write
\* of the incremented clickCount completed, the redirect goes to the Link's
\* target, and a Resolve whose step threw holds no redirect.
C21_RedirectAfterWrite ==
  [][\A r \in Slots :
       (Stepping(r).route = "resolve" /\ req'[r].resp.kind = "redirect"
          /\ req[r].resp.kind # "redirect") =>
         /\ req[r].pc = "save"
         /\ req'[r].caught = None
         /\ store'[req[r].doc.id].clicks = req[r].doc.clicks
         /\ req'[r].resp.to = store[req[r].doc.id].full]_vars

C21_Witness ==
  \E r \in AtRespond("resolve") :
    /\ req[r].caught = "StoreUnavailable"
    /\ req[r].doc.id \in DOMAIN store
    /\ req[r].resp = NotFoundPage
    /\ redirects[req[r].doc.id] = 1
    /\ store[req[r].doc.id].clicks = 1

\* A request of a protected route whose session holds no userId.
Unauthenticated(q) ==
  q.route \in {"home", "create"} /\ q.session.userId = None

\* C22: a Link enters the store only in the insert of a POST /shortUrls
\* whose session holds a userId, with that userId as its owner; a request of
\* /home or /shortUrls without a userId is answered at once with a redirect
\* to /login and the session error, and never touches the store.
C22_AuthGuardsStore ==
  [][/\ Len(store') > Len(store) =>
          \E r \in Slots :
            /\ req[r].route = "create" /\ req[r].pc = "insert"
            /\ req[r].session.userId # None
            /\ store' = Append(store, store'[Len(store')])
            /\ store'[Len(store')].userId = req[r].session.userId
     /\ \A r \in Slots :
          (req'[r] # req[r] /\ Unauthenticated(Stepping(r))) =>
            /\ store' = store
            /\ isConnected' = isConnected
            /\ req[r].pc = "idle" =>
                 /\ req'[r].pc = "respond"
                 /\ req'[r].resp = Redirect("/login")
                 /\ req'[r].session.error = MsgLogin
            /\ req[r].pc # "idle" =>
                 /\ req[r].pc = "respond" /\ req'[r].pc = "idle"
                 /\ sessions'[req[r].sid].error = MsgLogin]_vars

C22_Witness ==
  /\ Len(store) = 1
  /\ \E r \in AtRespond("create") :
       /\ Unauthenticated(req[r])
       /\ req[r].resp = Redirect("/login")

\* The ways ShortUrl.create and the connect before it fail.
CreateFailures == {"StoreUnavailable", "ValidationError", "DuplicateCode"}

\* C23: the step in which a POST /shortUrls fails leaves the store as it
\* was, sets the session error and answers with a redirect to /home; the
\* failed request has stored no Link, and its answer writes the error into
\* the session.
C23_CreateFailureClean ==
  [][\A r \in Slots :
       /\ (req[r].route = "create" /\ req'[r] # req[r]
            /\ req'[r].caught # None /\ req[r].caught = None) =>
            /\ req'[r].caught \in CreateFailures
            /\ store' = store
            /\ req[r].doc.id = 0 /\ req'[r].doc.id = 0
            /\ req'[r].session.error = MsgCreate
            /\ req'[r].resp = Redirect("/home")
       /\ (req[r].route = "create" /\ req[r].caught # None
            /\ req'[r] # req[r]) =>
            /\ store' = store
            /\ sessions'[req[r].sid].error = MsgCreate]_vars

C23_Witness ==
  /\ Len(store) = 1
  /\ \E r \in AtRespond("create") :
       /\ req[r].caught = "DuplicateCode"
       /\ req[r].session.error = MsgCreate
       /\ req[r].resp = Redirect("/home")

\* A GET /home of a session that holds a userId is in flight.
HomeStarted(s) ==
  \E r \in Slots :
    /\ req[r].route = "home" /\ req[r].sid = s /\ req[r].pc # "respond"
    /\ req[r].session.userId # None

\* A response that is no redirect is ready for the session's browser.
PageReached(s) ==
  \E r \in Slots :
    /\ req[r].sid = s /\ req[r].pc = "respond"
    /\ req[r].resp.kind # "redirect"

\* C24: a browser that holds a logged-in session and follows redirects from
\* GET /home on reaches a response that is no redirect, also when every
\* store operation fails.
C24_FollowTerminates ==
  \A s \in Sessions : HomeStarted(s) ~> PageReached(s)

\* Requests whose mongoose.connect call has not yet resolved or rejected.
Connecting == {r \in Slots : req[r].pc = "connecting"}

C26_SingleConnect ==
  [][/\ Cardinality({r \in Slots : req'[r].pc = "connecting"}) <= 1
     /\ \A r \in Connecting :
          req'[r].pc = AfterConnect(req[r]) => ~isConnected]_vars

\* Requests of the session in flight that were shown an error message.
Shown(s) == {r \in Slots : req[r].sid = s /\ req[r].locals # None}

\* C27: the one message stored in the session is shown to one request only:
\* a request is shown it only while no other request that was shown it is
\* in flight, and once a request that was shown it has been answered the
\* session holds no message.
C27_FlashOnce ==
  [][\A r \in Slots :
       /\ (req[r].pc = "idle" /\ req'[r].locals # None) =>
            /\ req'[r].locals = sessions[req'[r].sid].error
            /\ req'[r].session.error = None
            /\ Shown(req'[r].sid) = {}
       /\ (req[r].pc = "respond" /\ req'[r].pc = "idle"
            /\ req[r].locals # None) =>
            sessions'[req[r].sid].error = None]_vars

LoginErrors == {MsgLoginFields, MsgLoginBad, MsgLoginErr}

\* The stored user with this email and this password, if there is one.
Credentials(email, password) ==
  {u \in users : u.email = email /\ u.password = <<"bcrypt", password>>}

LoggedOut(s) ==
  /\ now >= 3
  /\ \A r \in Slots : req[r].sid = s => req[r].route # "logout"

\* C29: the logout removes the session; once it has been answered, and
\* until a login succeeds again, the session holds no userId and every
\* GET /home or POST /shortUrls of the session is answered with a redirect
\* to /login without going to the database.
C29_LogoutHolds ==
  [][/\ \A r \in Slots :
          (req[r].pc = "destroy" /\ req'[r].pc = "respond") =>
             sessions'[req[r].sid] = NoSess
     /\ \A s \in Sessions :
          LoggedOut(s)' =>
            /\ sessions'[s].userId = None
            /\ \A r \in Slots :
                 (req[r].pc = "idle" /\ req'[r].sid = s
                    /\ req'[r].route \in {"home", "create"}) =>
                   /\ req'[r].pc = "respond"
                   /\ req'[r].resp = Redirect("/login")]_vars

====
